---- MODULE Spec2Model ----
(***************************************************************************)
(* Payroll-slip ingestion: the Document Intelligence polling client        *)
(* (shared/di_reader.py), the transfer-consistency validator               *)
(* (shared/validators/payroll_rules.py) and the blob-ingest entry point    *)
(* (fn_blob_ingest/__init__.py).                                           *)
(***************************************************************************)
EXTENDS Integers, Sequences, FiniteSets, TLC

(***************************************************************************)
(* Python integers.  Amounts are arbitrary-precision ints in the program;  *)
(* the validator works under decimal's default context, whose precision is *)
(* DecimalPrec significant digits.  An integer is written hi*10^28 + lo    *)
(* with lo a machine-size offset, so the values around 0 and around the    *)
(* multiples of 10^28 are represented exactly and uniquely.                *)
(***************************************************************************)
DecimalPrec == 28

Big(h, l) == [hi |-> h, lo |-> l]

Small(n) == Big(0, n)

BigAdd(x, y) == Big(x.hi + y.hi, x.lo + y.lo)

BigSub(x, y) == Big(x.hi - y.hi, x.lo - y.lo)

BigNeg(x) == Big(0 - x.hi, 0 - x.lo)

BigIsZero(x) == x.hi = 0 /\ x.lo = 0

\* More than DecimalPrec digits: |x| >= 10^28.
TooWide(x) ==
    \/ x.hi >= 2
    \/ x.hi = 1 /\ x.lo >= 0
    \/ x.hi <= -2
    \/ x.hi = -1 /\ x.lo <= 0

\* decimal's context rounding (ROUND_HALF_EVEN) of an exact integer result that
\* has DecimalPrec + 1 digits: the last digit is dropped.  10^27 is even, so the
\* parity of the kept last digit is that of lo \div 10.
RoundHalfEven10(l) ==
    LET q == l \div 10
        r == l % 10
    IN  IF r < 5 THEN 10 * q
        ELSE IF r > 5 THEN 10 * (q + 1)
        ELSE IF q % 2 = 0 THEN 10 * q ELSE 10 * (q + 1)

ContextRound(x) == IF TooWide(x) THEN Big(x.hi, RoundHalfEven10(x.lo)) ELSE x

\* Decimal("NaN"): a quiet NaN passes through quantize, + and - without a
\* signal and compares unequal to everything.
DecNaN == [nan |-> TRUE]

IsNaN(x) == "nan" \in DOMAIN x

DecAdd(x, y) == IF IsNaN(x) \/ IsNaN(y) THEN DecNaN ELSE ContextRound(BigAdd(x, y))

DecSub(x, y) == IF IsNaN(x) \/ IsNaN(y) THEN DecNaN ELSE ContextRound(BigSub(x, y))

DecEq(x, y) == ~IsNaN(x) /\ ~IsNaN(y) /\ x = y

(***************************************************************************)
(* Text.  A string is a sequence of characters; a character is named by a  *)
(* one-token string: ASCII as itself, "FW1" the full-width digit U+FF11,   *)
(* "FW," the full-width comma U+FF0C, "FW-" the full-width hyphen-minus    *)
(* U+FF0D, "SUP2" the superscript two U+00B2.                              *)
(***************************************************************************)
AsciiDigits == {"0", "1", "2", "3", "4", "5", "6", "7", "8", "9"}

FullWidthDigits ==
    {"FW0", "FW1", "FW2", "FW3", "FW4", "FW5", "FW6", "FW7", "FW8", "FW9"}

Whitespace == {" "}

DigitVal(c) ==
    CASE c \in {"0", "FW0"} -> 0
      [] c \in {"1", "FW1"} -> 1
      [] c \in {"2", "FW2"} -> 2
      [] c \in {"3", "FW3"} -> 3
      [] c \in {"4", "FW4"} -> 4
      [] c \in {"5", "FW5"} -> 5
      [] c \in {"6", "FW6"} -> 6
      [] c \in {"7", "FW7"} -> 7
      [] c \in {"8", "FW8"} -> 8
      [] c \in {"9", "FW9"} -> 9
      [] OTHER -> -1

RECURSIVE LStrip(_)
LStrip(s) ==
    IF s # <<>> /\ Head(s) \in Whitespace THEN LStrip(Tail(s)) ELSE s

RECURSIVE RStripWs(_)
RStripWs(s) ==
    IF s # <<>> /\ s[Len(s)] \in Whitespace
    THEN RStripWs(SubSeq(s, 1, Len(s) - 1))
    ELSE s

\* str.strip()
Strip(s) == RStripWs(LStrip(s))

\* str.replace(c, "")
RECURSIVE RemoveChar(_, _)
RemoveChar(s, c) ==
    IF s = <<>> THEN <<>>
    ELSE IF Head(s) = c THEN RemoveChar(Tail(s), c)
    ELSE <<Head(s)>> \o RemoveChar(Tail(s), c)

\* str.maketrans("FW0..FW9 FW-", "0..9 -"): every other character maps to itself.
TransChar(c) ==
    CASE c = "FW0" -> "0"
      [] c = "FW1" -> "1"
      [] c = "FW2" -> "2"
      [] c = "FW3" -> "3"
      [] c = "FW4" -> "4"
      [] c = "FW5" -> "5"
      [] c = "FW6" -> "6"
      [] c = "FW7" -> "7"
      [] c = "FW8" -> "8"
      [] c = "FW9" -> "9"
      [] c = "FW-" -> "-"
      [] OTHER -> c

Translate(s) == [i \in 1..Len(s) |-> TransChar(s[i])]

\* The value of a sequence of decimal digits (ASCII or full-width).
RECURSIVE DigitsValue(_)
DigitsValue(ds) ==
    IF ds = <<>> THEN 0
    ELSE 10 * DigitsValue(SubSeq(ds, 1, Len(ds) - 1)) + DigitVal(ds[Len(ds)])

AllIn(s, S) == \A i \in 1..Len(s) : s[i] \in S

\* The index of the first "." of s, or 0.
DotAt(s) ==
    IF \E i \in 1..Len(s) : s[i] = "."
    THEN CHOOSE i \in 1..Len(s) : s[i] = "." /\ \A j \in 1..(i - 1) : s[j] # "."
    ELSE 0

(***************************************************************************)
(* A decimal literal as float() and Decimal() read it: surrounding         *)
(* whitespace, an optional sign, digits with at most one point and at      *)
(* least one digit.  digs is the set of characters the reader takes as     *)
(* digits.  ok = FALSE is the reader's exception.                          *)
(***************************************************************************)
ParseParts(neg, ip, fp, digs) ==
    IF AllIn(ip, digs) /\ AllIn(fp, digs) /\ Len(ip) + Len(fp) >= 1
    THEN [ok |-> TRUE, neg |-> neg, ip |-> DigitsValue(ip),
          half |-> fp # <<>> /\ DigitVal(fp[1]) >= 5]
    ELSE [ok |-> FALSE, neg |-> neg, ip |-> 0, half |-> FALSE]

ParseAt(neg, body, d, digs) ==
    IF d = 0
    THEN ParseParts(neg, body, <<>>, digs)
    ELSE ParseParts(neg, SubSeq(body, 1, d - 1), SubSeq(body, d + 1, Len(body)), digs)

ParseSigned(t, digs) ==
    IF t # <<>> /\ Head(t) \in {"-", "+"}
    THEN ParseAt(Head(t) = "-", Tail(t), DotAt(Tail(t)), digs)
    ELSE ParseAt(FALSE, t, DotAt(t), digs)

ParseLiteral(s, digs) == ParseSigned(Strip(s), digs)

(***************************************************************************)
(* JSON values as json.loads delivers them.  t is the Python type:         *)
(* "absent" (no such key), "null", "int" (value hi*10^28 + lo), "float"    *)
(* (a finite float, lo tenths), "inf" and "nan" (json.loads reads 1e400    *)
(* and NaN as such floats), "bool" (lo = 1 for True) and "str" (text s).   *)
(***************************************************************************)
JV(t, h, l, s) == [t |-> t, hi |-> h, lo |-> l, s |-> s]

JAbsent == JV("absent", 0, 0, <<>>)

JNull == JV("null", 0, 0, <<>>)

JInt(x) == JV("int", x.hi, x.lo, <<>>)

JFloat(tenths) == JV("float", 0, tenths, <<>>)

JInf == JV("inf", 0, 0, <<>>)

JNan == JV("nan", 0, 0, <<>>)

JBool(b) == JV("bool", 0, IF b THEN 1 ELSE 0, <<>>)

JStr(s) == JV("str", 0, 0, s)

\* isinstance(v, (int, float)); bool is a subclass of int.
IsIntOrFloat(v) == v.t \in {"int", "float", "inf", "nan", "bool"}

\* Truncation toward zero of n/10.
TruncTenths(n) == IF n >= 0 THEN n \div 10 ELSE 0 - ((0 - n) \div 10)

\* int(v) for v an int or a float: exc names the exception int() raises.
PyInt(v) ==
    CASE v.t = "int"   -> [exc |-> "none", val |-> Big(v.hi, v.lo)]
      [] v.t = "bool"  -> [exc |-> "none", val |-> Small(v.lo)]
      [] v.t = "float" -> [exc |-> "none", val |-> Small(TruncTenths(v.lo))]
      [] v.t = "inf"   -> [exc |-> "OverflowError", val |-> Small(0)]
      [] OTHER         -> [exc |-> "ValueError", val |-> Small(0)]

UnicodeDigits == AsciiDigits \cup FullWidthDigits

\* The words float() reads as an infinity or a NaN, behind an optional sign.
NonFiniteWords ==
    {<<"i", "n", "f">>, <<"i", "n", "f", "i", "n", "i", "t", "y">>, <<"n", "a", "n">>}

Unsigned(t) == IF t # <<>> /\ Head(t) \in {"-", "+"} THEN Tail(t) ELSE t

IsNonFiniteText(s) == Unsigned(Strip(s)) \in NonFiniteWords

\* int(float(s)) inside try/except Exception: 0 when float() raises, and 0
\* when int() raises on the infinity or NaN float() returned.
IntOfFloatText(s) ==
    LET p == ParseLiteral(s, UnicodeDigits)
    IN  IF IsNonFiniteText(s) THEN 0
        ELSE IF p.ok THEN (IF p.neg THEN 0 - p.ip ELSE p.ip)
        ELSE 0

\* content.strip().replace(",", "").translate(full-width -> ASCII)
Sanitize(content) == Translate(RemoveChar(Strip(content), ","))

(***************************************************************************)
(* A field object of the model output.  present = FALSE is a field that is *)
(* None, missing or an empty object; vn is valueNumber; vc is              *)
(* valueCurrency (isDict, and its amount); content is the text (isStr).    *)
(***************************************************************************)
Field(p, vn, vcDict, amount, isStr, text) ==
    [present |-> p, vn |-> vn,
     vc |-> [isDict |-> vcDict, amount |-> amount],
     content |-> [isStr |-> isStr, s |-> text]]

NoField == Field(FALSE, JAbsent, FALSE, JAbsent, FALSE, <<>>)

NumberField(v) == Field(TRUE, v, FALSE, JAbsent, FALSE, <<>>)

CurrencyField(v) == Field(TRUE, JAbsent, TRUE, v, FALSE, <<>>)

ContentField(s) == Field(TRUE, JAbsent, FALSE, JAbsent, TRUE, s)

\* The cascade with valueCurrency.amount tried before valueNumber.
num_from_fieldCurrencyFirst(f) ==
    IF ~f.present THEN [exc |-> "none", val |-> Small(0)]
    ELSE IF f.vc.isDict /\ IsIntOrFloat(f.vc.amount) THEN PyInt(f.vc.amount)
    ELSE IF IsIntOrFloat(f.vn) THEN PyInt(f.vn)
    ELSE IF f.content.isStr
         THEN [exc |-> "none", val |-> Small(IntOfFloatText(Sanitize(f.content.s)))]
    ELSE [exc |-> "none", val |-> Small(0)]

\* The text stage without its try/except.
num_from_fieldTextRaises(f) ==
    IF ~f.present THEN [exc |-> "none", val |-> Small(0)]
    ELSE IF IsIntOrFloat(f.vn) THEN PyInt(f.vn)
    ELSE IF f.vc.isDict /\ IsIntOrFloat(f.vc.amount) THEN PyInt(f.vc.amount)
    ELSE IF f.content.isStr
         THEN (IF ParseLiteral(Sanitize(f.content.s), UnicodeDigits).ok
               THEN [exc |-> "none", val |-> Small(IntOfFloatText(Sanitize(f.content.s)))]
               ELSE [exc |-> "ValueError", val |-> Small(0)])
    ELSE [exc |-> "none", val |-> Small(0)]

\* _num_from_field: valueNumber, then valueCurrency.amount, then the content.
num_from_field(f) ==
    IF ~f.present THEN [exc |-> "none", val |-> Small(0)]
    ELSE IF IsIntOrFloat(f.vn) THEN PyInt(f.vn)
    ELSE IF f.vc.isDict /\ IsIntOrFloat(f.vc.amount) THEN PyInt(f.vc.amount)
    ELSE IF f.content.isStr
         THEN [exc |-> "none", val |-> Small(IntOfFloatText(Sanitize(f.content.s)))]
    ELSE [exc |-> "none", val |-> Small(0)]

(***************************************************************************)
(* check_transfer_consistency.                                             *)
(***************************************************************************)
\* to_dec: Decimal(str(0 if v is None else v)).quantize(Decimal("1"), ROUND_HALF_UP).
\* sig is the decimal signal raised ("none": converted).  quantize signals
\* InvalidOperation when the result needs more than DecimalPrec digits.
HalfUp(neg, ip, half) ==
    LET m == IF half THEN ip + 1 ELSE ip
    IN  IF neg THEN 0 - m ELSE m

Converted(x) == [sig |-> "none", val |-> x]

Signalled(sig) == [sig |-> sig, val |-> Small(0)]

\* str(v) of a finite float with one fractional digit, quantized.
QuantizeTenths(neg, mag) == Small(HalfUp(neg, mag \div 10, mag % 10 >= 5))

\* Decimal(s).quantize(...) of a text s.
QuantizeParsed(p) ==
    IF p.ok THEN Converted(Small(HalfUp(p.neg, p.ip, p.half)))
    ELSE Signalled("ConversionSyntax")

to_dec(v) ==
    IF v.t \in {"absent", "null"} THEN Converted(Small(0))
    ELSE IF v.t = "int"
         THEN (IF TooWide(Big(v.hi, v.lo)) THEN Signalled("InvalidOperation")
               ELSE Converted(Big(v.hi, v.lo)))
    ELSE IF v.t = "float"
         THEN Converted(QuantizeTenths(v.lo < 0, IF v.lo < 0 THEN 0 - v.lo ELSE v.lo))
    ELSE IF v.t = "str" THEN QuantizeParsed(ParseLiteral(v.s, UnicodeDigits))
    ELSE IF v.t = "inf" THEN Signalled("InvalidOperation")
    ELSE IF v.t = "nan" THEN Converted(DecNaN)
    ELSE Signalled("ConversionSyntax")

FieldNames == <<"total_gross", "total_deduction", "other_payment", "transfer_amount">>

\* The first conversion that raises, in the order map() makes them, or 0.
FirstFailure(d) ==
    IF \E i \in 1..4 : d[i].sig # "none"
    THEN CHOOSE i \in 1..4 :
            d[i].sig # "none" /\ \A j \in 1..(i - 1) : d[j].sig = "none"
    ELSE 0

\* The two shapes of the second component of the result.
FailureInfo(sig) == [error |-> "invalid_number_format", detail |-> sig]

SuccessInfo(expected, tr) ==
    [expected |-> expected, transfer |-> tr, diff |-> DecSub(expected, tr)]

\* expected = tg - td + op; ok = (expected == tr)
Reconcile(tg, td, op, tr) ==
    [ok |-> DecEq(DecAdd(DecSub(tg, td), op), tr),
     info |-> SuccessInfo(DecAdd(DecSub(tg, td), op), tr)]

CheckConverted(d, bad) ==
    IF bad # 0
    THEN [ok |-> FALSE, info |-> FailureInfo(d[bad].sig)]
    ELSE Reconcile(d[1].val, d[2].val, d[3].val, d[4].val)

ConvertAll(fields) == [i \in 1..4 |-> to_dec(fields[FieldNames[i]])]

check_transfer_consistency(fields) ==
    CheckConverted(ConvertAll(fields), FirstFailure(ConvertAll(fields)))

(***************************************************************************)
(* The analyze result: analyzeResult of the last poll response.            *)
(* isObj = FALSE is a JSON null; docs is the "documents" member ("missing",*)
(* "empty" list, or a "list" whose first document is described by          *)
(* hasFields and fields).                                                  *)
(***************************************************************************)
FieldsOf(tg, td, op, tr) ==
    [total_gross |-> tg, total_deduction |-> td,
     other_payment |-> op, transfer_amount |-> tr]

NoFieldObjects == FieldsOf(NoField, NoField, NoField, NoField)

AnalyzeResult(isObj, docs, hasFields, fs) ==
    [isObj |-> isObj, docs |-> docs, hasFields |-> hasFields, fields |-> fs]

NoResult == AnalyzeResult(FALSE, "missing", FALSE, NoFieldObjects)

\* 10^28, the smallest integer with DecimalPrec + 1 digits.
TenPowPrec == Big(1, 0)

GrossSamples ==
    {NumberField(JInt(Small(300000))), NumberField(JInt(TenPowPrec)), NoField}

TransferSamples ==
    {NumberField(JFloat(2500000)), CurrencyField(JInt(Small(240000))),
     NumberField(JInf)}

ResultSamples ==
    {NoResult,
     AnalyzeResult(TRUE, "missing", FALSE, NoFieldObjects),
     AnalyzeResult(TRUE, "empty", FALSE, NoFieldObjects),
     AnalyzeResult(TRUE, "list", FALSE, NoFieldObjects)}
    \cup
    {AnalyzeResult(TRUE, "list", TRUE,
                   FieldsOf(g, CurrencyField(JInt(Small(50000))),
                            ContentField(<<"0">>), t)) :
        g \in GrossSamples, t \in TransferSamples}

\* (result.get("documents") or [{}])[0].get("fields") or {}
SelectFields(result) ==
    IF result.docs = "list" /\ result.hasFields
    THEN result.fields
    ELSE NoFieldObjects

\* The mapping the analyze functions build, or the first exception raised on
\* the way (result.get on a non-object, then the four conversions in order).
ExtractFields(result) ==
    LET fs == SelectFields(result)
        n  == [i \in 1..4 |-> num_from_field(fs[FieldNames[i]])]
        raising == {i \in 1..4 : n[i].exc # "none"}
        first == CHOOSE i \in raising : \A j \in raising : i <= j
    IN  IF ~result.isObj
        THEN [exc |-> "AttributeError",
              fields |-> FieldsOf(Small(0), Small(0), Small(0), Small(0))]
        ELSE IF raising # {}
        THEN [exc |-> n[first].exc,
              fields |-> FieldsOf(Small(0), Small(0), Small(0), Small(0))]
        ELSE [exc |-> "none",
              fields |-> FieldsOf(n[1].val, n[2].val, n[3].val, n[4].val)]

(***************************************************************************)
(* HTTP.                                                                   *)
(***************************************************************************)
HttpCodes == {200, 304, 404, 500}

\* Response.raise_for_status(): HTTPError for 4xx and 5xx.
RaisesForStatus(code) == 400 <= code /\ code < 600

Is2xx(code) == 200 <= code /\ code < 300

Header(present, s) == [present |-> present, s |-> s]

NoHeader == Header(FALSE, <<>>)

RetryAfterValues ==
    {NoHeader, Header(TRUE, <<>>), Header(TRUE, <<"0">>), Header(TRUE, <<"5">>),
     Header(TRUE, <<"1", "0">>), Header(TRUE, <<"-", "1">>),
     Header(TRUE, <<"a">>), Header(TRUE, <<"SUP2">>)}

\* str.isdigit(): every character has the Unicode digit property, which the
\* superscript digits have too, and there is at least one.
IsDigitChars == UnicodeDigits \cup {"SUP2"}

IsDigit(s) == s # <<>> /\ AllIn(s, IsDigitChars)

\* int(s) for a string of isdigit() characters: decimal digits only.
IntOfDigits(s) ==
    IF AllIn(s, UnicodeDigits)
    THEN [exc |-> "none", val |-> DigitsValue(s)]
    ELSE [exc |-> "ValueError", val |-> 0]

DefaultWait == 2

\* int(retry) if retry and retry.isdigit() else 2
RetryDelay(h) ==
    IF h.present /\ h.s # <<>> /\ IsDigit(h.s)
    THEN IntOfDigits(h.s)
    ELSE [exc |-> "none", val |-> DefaultWait]

SuccessStatuses == {"succeeded", "completed"}

FailureStatuses == {"failed", "canceled"}

\* "none" is a body without a status member.
Statuses == {"none", "running", "succeeded", "completed", "failed", "canceled"}

\* A poll response: net = FALSE is a network failure or timeout (no response);
\* body is "object", "array" or "invalid" JSON.
PollResponse(net, code, body, st, hasResult, result, retry) ==
    [net |-> net, code |-> code, body |-> body, status |-> st,
     hasResult |-> hasResult, result |-> result, retry |-> retry]

SampleResult == AnalyzeResult(TRUE, "empty", FALSE, NoFieldObjects)

PollResponses ==
    {PollResponse(FALSE, 200, "invalid", "none", FALSE, NoResult, NoHeader)}
    \cup
    {PollResponse(TRUE, c, b, "none", FALSE, NoResult, h) :
        c \in HttpCodes, b \in {"array", "invalid"}, h \in RetryAfterValues}
    \cup
    {PollResponse(TRUE, c, "object", st, FALSE, NoResult, h) :
        c \in HttpCodes, st \in Statuses, h \in RetryAfterValues}
    \cup
    {PollResponse(TRUE, c, "object", st, TRUE, SampleResult, h) :
        c \in HttpCodes, st \in SuccessStatuses, h \in RetryAfterValues}
    \cup
    {PollResponse(TRUE, 200, "object", "succeeded", TRUE, r, NoHeader) :
        r \in ResultSamples}

\* The loop with "canceled" taken for a status still in progress.
PollStepCanceledLoops(r) ==
    IF ~r.net THEN [kind |-> "raise", exc |-> "RequestException", secs |-> 0]
    ELSE IF RaisesForStatus(r.code) THEN [kind |-> "raise", exc |-> "HTTPError", secs |-> 0]
    ELSE IF r.body = "invalid" THEN [kind |-> "raise", exc |-> "JSONDecodeError", secs |-> 0]
    ELSE IF r.body = "array" THEN [kind |-> "raise", exc |-> "AttributeError", secs |-> 0]
    ELSE IF r.status \in SuccessStatuses
         THEN (IF r.hasResult THEN [kind |-> "return", exc |-> "none", secs |-> 0]
                              ELSE [kind |-> "raise", exc |-> "KeyError", secs |-> 0])
    ELSE IF r.status = "failed" THEN [kind |-> "raise", exc |-> "RuntimeError", secs |-> 0]
    ELSE IF RetryDelay(r.retry).exc # "none"
         THEN [kind |-> "raise", exc |-> RetryDelay(r.retry).exc, secs |-> 0]
    ELSE [kind |-> "sleep", exc |-> "none", secs |-> RetryDelay(r.retry).val]

\* What one iteration of the loop of _poll_operation does with a response:
\* "return" (with the result), "raise" (with the exception) or "sleep" (secs).
PollStep(r) ==
    LET delay == RetryDelay(r.retry)
        out(k, e, n) == [kind |-> k, exc |-> e, secs |-> n]
    IN  IF ~r.net THEN out("raise", "RequestException", 0)
        ELSE IF RaisesForStatus(r.code) THEN out("raise", "HTTPError", 0)
        ELSE IF r.body = "invalid" THEN out("raise", "JSONDecodeError", 0)
        ELSE IF r.body = "array" THEN out("raise", "AttributeError", 0)
        ELSE IF r.status \in SuccessStatuses
             THEN (IF r.hasResult THEN out("return", "none", 0)
                                  ELSE out("raise", "KeyError", 0))
        ELSE IF r.status \in FailureStatuses THEN out("raise", "RuntimeError", 0)
        ELSE IF delay.exc # "none" THEN out("raise", delay.exc, 0)
        ELSE out("sleep", "none", delay.val)

(***************************************************************************)
(* State.                                                                  *)
(***************************************************************************)
VARIABLES
    ENDPOINT,     \* module configuration, read once at import
    KEY,
    MODEL_ID,
    caller,       \* "main", or a direct call: "bytes" / "url"
    pc,           \* where the call stands
    log,          \* the network requests and sleeps made, in order
    lastWait,     \* the seconds of the last sleep (-1: none yet)
    submitResp,   \* the submit response received
    codes,        \* the HTTP codes of the poll responses received, in order
    lastResp,     \* the last poll response received
    poller,       \* _poll_operation: "idle", "running", "returned" or "raised"
    exc,          \* the exception that ended the call ("none")
    excBody,      \* the response body the exception message carries
    result,       \* what _poll_operation returned
    fields,       \* the mapping the analyze function returned
    consistency,  \* what check_transfer_consistency returned to main
    warned,       \* the warning main logged
    upserts,      \* the upsert_payroll calls made
    table,        \* the entities the table holds
    checkArgs,    \* the mapping of a direct call of check_transfer_consistency
    checkOut,     \* what that call returned
    normArg,      \* the field object of a direct call of _num_from_field
    normOut,      \* what that call returned or raised
    pending,      \* per function instance: the call in progress and its entity
    lastApplied,  \* per key: the arguments of the upsert the service merged last
    calls,        \* the number of upsert_payroll calls begun
    blobName,     \* the blob path main was triggered with
    utcNow,       \* the UTC clock when the file name is parsed
    ident,        \* what parse_payroll_filename returned
    pair          \* the two analyze functions run side by side on the same responses

vars ==
    <<ENDPOINT, KEY, MODEL_ID, caller, pc, log, lastWait, submitResp, codes,
      lastResp, poller, exc, excBody, result, fields, consistency, warned,
      upserts, table, checkArgs, checkOut, normArg, normOut,
      pending, lastApplied, calls, blobName, utcNow, ident, pair>>

storeVars == <<pending, lastApplied, calls>>

nameVars == <<blobName, utcNow, ident>>

\* One analyze call: where it stands, its polls and waits, its outcome.
Run(at, polls, wait, e, res, fs) ==
    [pc |-> at, log |-> polls, lastWait |-> wait, exc |-> e, result |-> res,
     fields |-> fs]

NoPair == [none |-> TRUE]

NoIdent == [none |-> TRUE]

Clock(year, month) == [year |-> year, month |-> month]

(***************************************************************************)
(* parse_payroll_filename.  A name is a sequence of characters; the kanji  *)
(* of the two titles are named by their readings: SHI KYUU MEI SAI SHO is  *)
(* U+652F U+7D66 U+660E U+7D30 U+66F8 and SHOU YO is U+8CDE U+4E0E; NL is  *)
(* the newline.                                                            *)
(***************************************************************************)
SalaryTitle == <<"SHI", "KYUU", "MEI", "SAI", "SHO">>

BonusTitle == <<"SHOU", "YO", "MEI", "SAI", "SHO">>

\* os.path.basename: what follows the last "/".
RECURSIVE Basename(_)
Basename(name) ==
    IF \E i \in 1..Len(name) : name[i] = "/"
    THEN Basename(Tail(name))
    ELSE name

\* "$" matches at the end and before a newline that ends the text.
BeforeFinalNewline(base) ==
    IF base # <<>> /\ base[Len(base)] = "NL"
    THEN SubSeq(base, 1, Len(base) - 1)
    ELSE base

\* ^(?P<date>\d{8})_(?P<title>...|...)_(?P<uid>\d+)\.pdf with b ending there;
\* \d takes every Unicode decimal digit.
MatchesAt(b) ==
    /\ Len(b) >= 20
    /\ AllIn(SubSeq(b, 1, 8), UnicodeDigits)
    /\ b[9] = "_"
    /\ SubSeq(b, 10, 14) \in {SalaryTitle, BonusTitle}
    /\ b[15] = "_"
    /\ AllIn(SubSeq(b, 16, Len(b) - 4), UnicodeDigits)
    /\ SubSeq(b, Len(b) - 3, Len(b)) = <<".", "p", "d", "f">>

\* _PATTERN.match(base)
PatternMatches(base) == MatchesAt(BeforeFinalNewline(base))

\* sub in text
Contains(text, sub) ==
    \E i \in 1..(Len(text) - Len(sub) + 1) : SubSeq(text, i, i + Len(sub) - 1) = sub

Identity(user_id, year, month, pay_type) ==
    [user_id |-> user_id, year |-> year, month |-> month, pay_type |-> pay_type]

\* The groups of a match, converted.
FromMatch(b) ==
    Identity(SubSeq(b, 16, Len(b) - 4),
             DigitsValue(SubSeq(b, 1, 4)),
             DigitsValue(SubSeq(b, 5, 6)),
             IF Contains(SubSeq(b, 10, 14), <<"SHOU", "YO">>) THEN "bonus" ELSE "salary")

\* The return for a name that does not match.
Fallback(clock) ==
    Identity(<<"u", "n", "k", "n", "o", "w", "n">>, clock.year, clock.month, "salary")

parse_payroll_filename(name, clock) ==
    IF PatternMatches(Basename(name))
    THEN FromMatch(BeforeFinalNewline(Basename(name)))
    ELSE Fallback(clock)

ClockSamples == {Clock(2026, 1), Clock(2026, 12)}

\* The blobs main is triggered with: a salary slip, a slip whose date has
\* month 13, and a file that is no slip.
BlobNames ==
    {<<"i", "n", "/", "2", "0", "2", "5", "1", "0", "1", "0", "_">> \o SalaryTitle
        \o <<"_", "0", "1", "2", "1", ".", "p", "d", "f">>,
     <<"i", "n", "/", "2", "0", "2", "5", "1", "3", "0", "1", "_">> \o SalaryTitle
        \o <<"_", "7", ".", "p", "d", "f">>,
     <<"i", "n", "/", "r", ".", "p", "d", "f">>}

NoNameParsed ==
    /\ blobName = <<>>
    /\ utcNow = Clock(2026, 11)
    /\ ident = NoIdent

\* The function instances that may run main at the same time.
Procs == {1, 2}

NoEntity == [none |-> TRUE]

NoStoreCalls ==
    /\ pending = [p \in Procs |-> NoEntity]
    /\ lastApplied = {}
    /\ calls = 0

MaxPolls == 3

\* os.getenv(name, ""): an unset variable reads as "".
EnvEndpointValues == {<<>>, <<"/">>, <<"h">>, <<"h", "/">>}

EnvValues == {<<>>, <<"k">>}

\* str.rstrip("/")
RECURSIVE RStripSlash(_)
RStripSlash(s) ==
    IF s # <<>> /\ s[Len(s)] = "/"
    THEN RStripSlash(SubSeq(s, 1, Len(s) - 1))
    ELSE s

SubmitResponse(net, code, opLoc) == [net |-> net, code |-> code, opLoc |-> opLoc]

NoSubmitResponse == SubmitResponse(FALSE, 0, FALSE)

NoResponse == PollResponse(FALSE, 0, "invalid", "none", FALSE, NoResult, NoHeader)

\* The JSON body of a poll response, as the f-string of the RuntimeError prints it.
Body(st, hasResult, res) == [status |-> st, hasResult |-> hasResult, result |-> res]

NoBody == Body("none", FALSE, NoResult)

BodyOf(r) == Body(r.status, r.hasResult, r.result)

NoFields == FieldsOf(Small(0), Small(0), Small(0), Small(0))

NoConsistency == [ok |-> FALSE, info |-> [none |-> TRUE]]

\* The fields as main hands them on: four Python ints.
AsValues(fs) ==
    FieldsOf(JInt(fs.total_gross), JInt(fs.total_deduction),
             JInt(fs.other_payment), JInt(fs.transfer_amount))

NotCalled == [exc |-> "none", val |-> [none |-> TRUE]]

Init ==
    /\ ENDPOINT \in {RStripSlash(e) : e \in EnvEndpointValues}
    /\ KEY \in EnvValues
    /\ MODEL_ID \in EnvValues
    /\ caller \in {"main", "bytes", "url"}
    /\ pc = "start"
    /\ log = <<>>
    /\ submitResp = NoSubmitResponse
    /\ lastWait = -1
    /\ codes = <<>>
    /\ lastResp = NoResponse
    /\ poller = "idle"
    /\ exc = "none"
    /\ excBody = NoBody
    /\ result = NoResult
    /\ fields = NoFields
    /\ consistency = NoConsistency
    /\ warned = "none"
    /\ upserts = <<>>
    /\ table = {}
    /\ checkArgs = AsValues(NoFields)
    /\ checkOut = NoConsistency
    /\ normArg = NoField
    /\ normOut = NotCalled
    /\ NoStoreCalls
    /\ pair = NoPair
    /\ blobName \in (IF caller = "main" THEN BlobNames ELSE {<<>>})
    /\ utcNow \in (IF caller = "main" THEN ClockSamples ELSE {Clock(2026, 11)})
    /\ ident = NoIdent

\* The check with the model identifier forgotten.
ConfigMissingIgnoresModel == ENDPOINT = <<>> \/ KEY = <<>>

\* _check_env: raises when any of the three is empty.
ConfigMissing == ENDPOINT = <<>> \/ KEY = <<>> \/ MODEL_ID = <<>>

Raise(e) == pc' = "raised" /\ exc' = e

\* main up to the call of analyze_pay_slip_from_bytes (the file name parsed
\* from the base name of the blob path), and the _check_env()
\* that opens both analyze functions.
CheckEnv ==
    /\ pc = "start"
    /\ ident' = IF caller = "main"
                THEN parse_payroll_filename(Basename(blobName), utcNow)
                ELSE ident
    /\ IF ConfigMissing
       THEN Raise("DIConfigError")
       ELSE pc' = "submit" /\ exc' = exc
    /\ UNCHANGED <<storeVars, blobName, utcNow, pair, checkArgs, checkOut, normArg, normOut,
                   ENDPOINT, KEY, MODEL_ID, caller, log, lastWait, submitResp,
                   codes, lastResp, poller, excBody, result, fields, consistency,
                   warned, upserts, table>>

\* What the analyze function does with the submit response.
SubmitStep(net, code, opLoc) ==
    IF ~net THEN "RequestException"
    ELSE IF RaisesForStatus(code) THEN "HTTPError"
    ELSE IF ~opLoc THEN "KeyError"
    ELSE "none"

\* requests.post(...), raise_for_status(), resp.headers["Operation-Location"].
Submit ==
    /\ pc = "submit"
    /\ \E net \in BOOLEAN, code \in HttpCodes, opLoc \in BOOLEAN :
          /\ log' = Append(log, "POST")
          /\ submitResp' = SubmitResponse(net, code, opLoc)
          /\ IF SubmitStep(net, code, opLoc) = "none"
             THEN pc' = "poll" /\ exc' = exc /\ poller' = "running"
             ELSE Raise(SubmitStep(net, code, opLoc)) /\ poller' = poller
    /\ UNCHANGED <<storeVars, nameVars, pair, checkArgs, checkOut, normArg, normOut,
                   ENDPOINT, KEY, MODEL_ID, caller, lastWait, codes, lastResp,
                   excBody, result, fields, consistency, warned, upserts, table>>

\* One iteration of the loop of _poll_operation: the GET, the reading of the
\* response and, for a non-terminal status, the sleep.
Poll ==
    /\ pc = "poll"
    /\ Len(codes) < MaxPolls
    /\ \E r \in PollResponses :
          LET step == PollStep(r)
          IN  /\ lastResp' = r
              /\ codes' = Append(codes, r.code)
              /\ CASE step.kind = "return" ->
                        /\ log' = Append(log, "GET")
                        /\ UNCHANGED lastWait
                        /\ result' = r.result
                        /\ poller' = "returned"
                        /\ pc' = "extract"
                        /\ exc' = exc
                        /\ excBody' = excBody
                   [] step.kind = "raise" ->
                        /\ log' = Append(log, "GET")
                        /\ UNCHANGED lastWait
                        /\ result' = result
                        /\ poller' = "raised"
                        /\ Raise(step.exc)
                        /\ excBody' = IF step.exc = "RuntimeError" THEN BodyOf(r)
                                                                   ELSE excBody
                   [] OTHER ->
                        /\ log' = log \o <<"GET", "SLEEP">>
                        /\ lastWait' = step.secs
                        /\ result' = result
                        /\ UNCHANGED <<poller, pc, exc, excBody>>
    /\ UNCHANGED <<storeVars, nameVars, pair, checkArgs, checkOut, normArg, normOut,
                   ENDPOINT, KEY, MODEL_ID, caller, submitResp, fields,
                   consistency, warned, upserts, table>>

\* The tail of the analyze functions: the four canonical fields of the result.
Extract ==
    /\ pc = "extract"
    /\ LET x == ExtractFields(result)
       IN  IF x.exc # "none"
           THEN Raise(x.exc) /\ fields' = fields
           ELSE /\ fields' = x.fields
                /\ pc' = IF caller = "main" THEN "check" ELSE "returned"
                /\ exc' = exc
    /\ UNCHANGED <<storeVars, nameVars, pair, checkArgs, checkOut, normArg, normOut,
                   ENDPOINT, KEY, MODEL_ID, caller, log, lastWait, submitResp,
                   codes, lastResp, poller, excBody, result, consistency, warned,
                   upserts, table>>

\* The warning main logs for a check result.
Warning(c) ==
    IF c.ok THEN "none"
    ELSE IF "error" \in DOMAIN c.info THEN "invalid number format"
    ELSE "mismatch"

\* main giving up on the record when the check does not pass.
AfterCheckSkipsUnlessOk(c) == IF c.ok THEN "upsert" ELSE "done"

\* main after the check: the upsert follows whatever the check returned.
AfterCheck(c) == "upsert"

\* main: the consistency check and its warning.
Check ==
    /\ pc = "check"
    /\ LET c == check_transfer_consistency(AsValues(fields))
       IN  consistency' = c /\ warned' = Warning(c) /\ pc' = AfterCheck(c)
    /\ UNCHANGED <<storeVars, nameVars, pair, checkArgs, checkOut, normArg, normOut,
                   ENDPOINT, KEY, MODEL_ID, caller, log, lastWait, submitResp,
                   codes, lastResp, poller, exc, excBody, result, fields, upserts,
                   table>>

\* The entity upsert_payroll builds (amounts through int()).
Entity(status, fs) ==
    [status |-> status,
     totalGross |-> fs.total_gross, totalDeduction |-> fs.total_deduction,
     otherPayment |-> fs.other_payment, transferAmount |-> fs.transfer_amount]

\* main: _repo.upsert_payroll(..., status="parsed"); the table service either
\* merges the entity or answers with an error, which main re-raises.
Upsert ==
    /\ pc = "upsert"
    /\ upserts' = Append(upserts, Entity("parsed", fields))
    /\ \E stored \in BOOLEAN :
          IF stored
          THEN table' = {Entity("parsed", fields)} /\ pc' = "done" /\ exc' = exc
          ELSE table' = table /\ Raise("HttpResponseError")
    /\ UNCHANGED <<storeVars, nameVars, pair, checkArgs, checkOut, normArg, normOut,
                   ENDPOINT, KEY, MODEL_ID, caller, log, lastWait, submitResp,
                   codes, lastResp, poller, excBody, result, fields, consistency,
                   warned>>

Next == CheckEnv \/ Submit \/ Poll \/ Extract \/ Check \/ Upsert

Spec == Init /\ [][Next]_vars

(***************************************************************************)
(* check_transfer_consistency called on its own, with a mapping whose four *)
(* values are drawn from CheckValues.                                      *)
(***************************************************************************)
MaxAmount == 1

IntSamples ==
    {Small(n) : n \in 0..MaxAmount}
    \cup {Small(300000), Small(50000), Small(250000), Small(240000)}
    \cup {Big(1, -1), TenPowPrec, Big(-1, 1)}

CheckValues ==
    {JInt(x) : x \in IntSamples}
    \cup {JAbsent, JNull, JFloat(15), JBool(TRUE), JInf, JNan,
          JStr(<<"1", "2">>), JStr(<<"1", ",", "2", "a">>)}

\* The configuration and call state of a process that makes no analyze call.
NoAnalyzeCall ==
    /\ ENDPOINT = <<"h">> /\ KEY = <<"k">> /\ MODEL_ID = <<"k">>
    /\ log = <<>> /\ submitResp = NoSubmitResponse /\ lastWait = -1
    /\ codes = <<>> /\ lastResp = NoResponse /\ poller = "idle"
    /\ exc = "none" /\ excBody = NoBody /\ result = NoResult
    /\ fields = NoFields /\ consistency = NoConsistency /\ warned = "none"
    /\ upserts = <<>> /\ table = {}

callVars ==
    <<ENDPOINT, KEY, MODEL_ID, caller, log, lastWait, submitResp, codes,
      lastResp, poller, excBody, result, fields, consistency, warned,
      upserts, table>>

InitCheck ==
    /\ NoAnalyzeCall
    /\ caller = "check"
    /\ pc = "call"
    /\ checkArgs \in {FieldsOf(tg, td, op, tr) :
                         tg \in CheckValues, td \in CheckValues,
                         op \in CheckValues, tr \in CheckValues}
    /\ checkOut = NoConsistency
    /\ normArg = NoField
    /\ normOut = NotCalled
    /\ NoStoreCalls
    /\ pair = NoPair
    /\ NoNameParsed

\* check_transfer_consistency(fields): it returns for every mapping.
CallCheck ==
    /\ caller = "check" /\ pc = "call"
    /\ checkOut' = check_transfer_consistency(checkArgs)
    /\ pc' = "returned"
    /\ UNCHANGED <<callVars, storeVars, nameVars, pair, exc, checkArgs, normArg, normOut>>

NextCheck == CallCheck

SpecCheck == InitCheck /\ [][NextCheck]_vars

(***************************************************************************)
(* _num_from_field called on its own, with one field object.               *)
(***************************************************************************)
MaxContentLen == 3

ContentAlphabet == {"1", "2", "FW1", ",", "FW,", "-", "FW-", " ", ".", "a"}

ContentSamples ==
    UNION {[1..n -> ContentAlphabet] : n \in 0..MaxContentLen}
    \cup {<<"FW1", "FW,", "FW2", "FW3", "FW4">>,
          <<"1", ",", "2", "3", "4">>,
          <<" ", "-", "1", ",", "2", "0", "0", " ">>,
          <<"i", "n", "f">>, <<"-", "i", "n", "f">>, <<"n", "a", "n">>}

ValueNumberSamples ==
    {JAbsent, JNull, JInt(Small(1500)), JInt(TenPowPrec), JFloat(15009),
     JFloat(-129), JBool(TRUE), JStr(<<"9">>), JInf, JNan}

AmountSamples ==
    {JAbsent, JInt(Small(2000)), JFloat(-25), JStr(<<"8">>), JNan}

FieldSamples ==
    {NoField}
    \cup {ContentField(s) : s \in ContentSamples}
    \cup {Field(TRUE, vn, d, IF d THEN am ELSE JAbsent, str, IF str THEN t ELSE <<>>) :
             vn \in ValueNumberSamples, d \in BOOLEAN, am \in AmountSamples,
             str \in BOOLEAN, t \in {<<"7">>, <<"a">>}}

InitNorm ==
    /\ NoAnalyzeCall
    /\ caller = "norm"
    /\ pc = "call"
    /\ checkArgs = AsValues(NoFields)
    /\ checkOut = NoConsistency
    /\ normArg \in FieldSamples
    /\ normOut = NotCalled
    /\ NoStoreCalls
    /\ pair = NoPair
    /\ NoNameParsed

\* _num_from_field(f): the integer returned, or the exception of int().
CallNorm ==
    /\ caller = "norm" /\ pc = "call"
    /\ normOut' = num_from_field(normArg)
    /\ IF num_from_field(normArg).exc = "none"
       THEN pc' = "returned" /\ exc' = exc
       ELSE Raise(num_from_field(normArg).exc)
    /\ UNCHANGED <<callVars, storeVars, nameVars, pair, checkArgs, checkOut, normArg>>

NextNorm == CallNorm

SpecNorm == InitNorm /\ [][NextNorm]_vars

(***************************************************************************)
(* TableRepository.upsert_payroll called by function instances that run    *)
(* at the same time.  A call builds its entity and hands it to the table   *)
(* service, which merges it into the row of the same PartitionKey and      *)
(* RowKey in one step, or rejects it.                                      *)
(***************************************************************************)
MaxUpserts == 3

\* str(n) for n >= 0, as a sequence of digit characters.
RECURSIVE ToDigits(_)
ToDigits(n) ==
    IF n < 10 THEN <<CHOOSE c \in AsciiDigits : DigitVal(c) = n>>
    ELSE Append(ToDigits(n \div 10), CHOOSE c \in AsciiDigits : DigitVal(c) = n % 10)

\* The format specs 04d and 02d: zero-filled to the width, longer kept whole.
RECURSIVE ZeroFill(_, _)
ZeroFill(ds, width) == IF Len(ds) >= width THEN ds ELSE ZeroFill(<<"0">> \o ds, width)

\* f"{year:04d}-{month:02d}:{pay_type}"
RowKey(year, month, pay_type) ==
    ZeroFill(ToDigits(year), 4) \o <<"-">> \o ZeroFill(ToDigits(month), 2)
        \o <<":", pay_type>>

\* The entity with the status argument dropped for the parameter's default.
TableEntityDefaultStatus(user_id, year, month, pay_type, status, fs, now) ==
    [PartitionKey |-> user_id, RowKey |-> RowKey(year, month, pay_type),
     ingestedAtUtc |-> now]
    @@ Entity("stub", fs)

\* The entity upsert_payroll builds (the blob path and file name left out).
TableEntity(user_id, year, month, pay_type, status, fs, now) ==
    [PartitionKey |-> user_id, RowKey |-> RowKey(year, month, pay_type),
     ingestedAtUtc |-> now]
    @@ Entity(status, fs)

SameKey(r, e) == r.PartitionKey = e.PartitionKey /\ r.RowKey = e.RowKey

\* mode="merge": the properties the entity names are written, the others kept.
Merged(r, e) ==
    [k \in DOMAIN r \cup DOMAIN e |-> IF k \in DOMAIN e THEN e[k] ELSE r[k]]

\* upsert_entity(entity, mode="merge") on the rows tbl.
UpsertInto(tbl, e) ==
    IF \E r \in tbl : SameKey(r, e)
    THEN {IF SameKey(r, e) THEN Merged(r, e) ELSE r : r \in tbl}
    ELSE tbl \cup {e}

\* The identities main passes on: parsed from a file name, or the fallback.
KeySamples ==
    {<<<<"0", "1", "2", "1">>, 2025, 1, "salary">>,
     <<<<"0", "1", "2", "1">>, 2025, 1, "bonus">>,
     <<<<"0", "1", "2", "1">>, 2025, 12, "salary">>,
     <<<<"u", "n", "k", "n", "o", "w", "n">>, 2025, 1, "salary">>}

\* status and amounts: the ingest function ("parsed") and its stub ("stub").
PayloadSamples ==
    {<<"parsed", FieldsOf(Small(300000), Small(50000), Small(0), Small(250000))>>,
     <<"parsed", NoFields>>,
     <<"stub", NoFields>>}

InitStore ==
    /\ NoAnalyzeCall
    /\ caller = "store"
    /\ pc = "store"
    /\ checkArgs = AsValues(NoFields)
    /\ checkOut = NoConsistency
    /\ normArg = NoField
    /\ normOut = NotCalled
    /\ NoStoreCalls
    /\ pair = NoPair
    /\ NoNameParsed

\* upsert_payroll up to the service call: the entity is built.
BuildEntity(p) ==
    /\ caller = "store"
    /\ pending[p] = NoEntity
    /\ calls < MaxUpserts
    /\ \E k \in KeySamples, w \in PayloadSamples :
          pending' = [pending EXCEPT
                         ![p] = [status |-> w[1], amounts |-> w[2],
                                 entity |-> TableEntity(k[1], k[2], k[3], k[4],
                                                        w[1], w[2], calls)]]
    /\ calls' = calls + 1
    /\ UNCHANGED <<callVars, nameVars, pair, pc, exc, checkArgs, checkOut, normArg,
                   normOut, lastApplied>>

storeRunVars ==
    <<ENDPOINT, KEY, MODEL_ID, caller, log, lastWait, submitResp, codes,
      lastResp, poller, excBody, result, fields, consistency, warned,
      upserts, pc, exc, checkArgs, checkOut, normArg, normOut, calls,
      blobName, utcNow, ident, pair>>

\* self._table.upsert_entity(entity, mode="merge"): the service merges the row.
UpsertEntity(p) ==
    /\ caller = "store"
    /\ pending[p] # NoEntity
    /\ table' = UpsertInto(table, pending[p].entity)
    /\ lastApplied' =
          {a \in lastApplied : ~SameKey(a.entity, pending[p].entity)} \cup {pending[p]}
    /\ pending' = [pending EXCEPT ![p] = NoEntity]
    /\ UNCHANGED storeRunVars

\* The service answers with an error: the call raises and no row changes.
RejectEntity(p) ==
    /\ caller = "store"
    /\ pending[p] # NoEntity
    /\ pending' = [pending EXCEPT ![p] = NoEntity]
    /\ UNCHANGED <<storeRunVars, table, lastApplied>>

NextStore == \E p \in Procs : BuildEntity(p) \/ UpsertEntity(p) \/ RejectEntity(p)

SpecStore == InitStore /\ [][NextStore]_vars

(***************************************************************************)
(* parse_payroll_filename called on its own.                               *)
(***************************************************************************)
DateSamples ==
    {<<"2", "0", "2", "5", "1", "0", "1", "0">>,
     <<"2", "0", "2", "5", "0", "3", "3", "1">>,
     <<"2", "0", "2", "5", "1", "3", "0", "1">>,
     <<"2", "0", "2", "5", "0", "0", "1", "0">>,
     <<"FW2", "FW0", "FW2", "FW5", "FW1", "FW2", "FW0", "FW1">>,
     <<"2", "0", "2", "5", "1", "0", "1">>,
     <<"2", "0", "2", "5", "1", "0", "1", "0", "0">>,
     <<"a", "0", "2", "5", "1", "0", "1", "0">>}

TitleSamples == {SalaryTitle, BonusTitle, <<"SHI", "KYUU", "MEI", "SAI">>, <<>>}

UidSamples == {<<"0", "1", "2", "1">>, <<"7">>, <<>>, <<"1", "a">>}

ExtensionSamples ==
    {<<".", "p", "d", "f">>, <<".", "p", "d", "f", "NL">>,
     <<".", "P", "D", "F">>, <<"p", "d", "f">>}

DirSamples == {<<>>, <<"i", "n", "/">>}

NameSamples ==
    {dir \o d \o <<sep>> \o t \o <<sep>> \o u \o ext :
        dir \in DirSamples, d \in DateSamples, sep \in {"_", "-"},
        t \in TitleSamples, u \in UidSamples, ext \in ExtensionSamples}

InitName ==
    /\ NoAnalyzeCall
    /\ caller = "name"
    /\ pc = "call"
    /\ checkArgs = AsValues(NoFields)
    /\ checkOut = NoConsistency
    /\ normArg = NoField
    /\ normOut = NotCalled
    /\ NoStoreCalls
    /\ pair = NoPair
    /\ blobName \in NameSamples
    /\ utcNow \in ClockSamples
    /\ ident = NoIdent

\* parse_payroll_filename(name): it returns for every name.
CallParse ==
    /\ caller = "name" /\ pc = "call"
    /\ ident' = parse_payroll_filename(blobName, utcNow)
    /\ pc' = "returned"
    /\ UNCHANGED <<callVars, storeVars, exc, checkArgs, checkOut, normArg, normOut,
                   blobName, utcNow, pair>>

NextName == CallParse

SpecName == InitName /\ [][NextName]_vars

(***************************************************************************)
(* analyze_pay_slip_from_bytes and analyze_pay_slip_from_url run side by   *)
(* side: the same configuration, and every response of the service handed  *)
(* to both.  Each function is stepped by its own code; _poll_operation is  *)
(* the one function both call.                                             *)
(***************************************************************************)
StartRun == Run("start", <<>>, -1, "none", NoResult, NoFields)

RunRaise(run, e) == [run EXCEPT !.pc = "raised", !.exc = e]

\* _check_env() at the head of either function.
RunCheckEnv(run) ==
    IF ConfigMissing THEN RunRaise(run, "DIConfigError")
    ELSE [run EXCEPT !.pc = "submit"]

\* The outcome of the submit, as either function reads it.
RunSubmitted(run, out) ==
    IF out = "none" THEN [run EXCEPT !.pc = "poll"] ELSE RunRaise(run, out)

\* One iteration of _poll_operation on the response r.
RunPolled(run, r, step) ==
    IF step.kind = "return"
    THEN [run EXCEPT !.pc = "extract", !.log = Append(@, "GET"), !.result = r.result]
    ELSE IF step.kind = "raise"
    THEN [RunRaise(run, step.exc) EXCEPT !.log = Append(@, "GET")]
    ELSE [run EXCEPT !.log = @ \o <<"GET", "SLEEP">>, !.lastWait = step.secs]

\* The mapping built from the result, or the exception on the way.
RunExtracted(run, x) ==
    IF x.exc # "none" THEN RunRaise(run, x.exc)
    ELSE [run EXCEPT !.pc = "returned", !.fields = x.fields]

\* analyze_pay_slip_from_url with the status of the submit response not looked at.
UrlSubmitStepIgnoresStatus(net, code, opLoc) ==
    IF ~net THEN "RequestException"
    ELSE IF ~opLoc THEN "KeyError"
    ELSE "none"

\* analyze_pay_slip_from_url: requests.post(..., json={"urlSource": sas_url}),
\* raise_for_status(), resp.headers["Operation-Location"].
UrlSubmitStep(net, code, opLoc) ==
    IF ~net THEN "RequestException"
    ELSE IF RaisesForStatus(code) THEN "HTTPError"
    ELSE IF ~opLoc THEN "KeyError"
    ELSE "none"

\* analyze_pay_slip_from_url: the mapping it builds from the result.
UrlExtractFields(res) ==
    LET fs == SelectFields(res)
        n  == [i \in 1..4 |-> num_from_field(fs[FieldNames[i]])]
        raising == {i \in 1..4 : n[i].exc # "none"}
        first == CHOOSE i \in raising : \A j \in raising : i <= j
    IN  IF ~res.isObj
        THEN [exc |-> "AttributeError", fields |-> NoFields]
        ELSE IF raising # {}
        THEN [exc |-> n[first].exc, fields |-> NoFields]
        ELSE [exc |-> "none",
              fields |-> FieldsOf(n[1].val, n[2].val, n[3].val, n[4].val)]

\* A step of analyze_pay_slip_from_bytes on what the service sent.
BytesStep(run, sub, r) ==
    CASE run.pc = "start"   -> RunCheckEnv(run)
      [] run.pc = "submit"  -> RunSubmitted(run, SubmitStep(sub.net, sub.code, sub.opLoc))
      [] run.pc = "poll"    -> RunPolled(run, r, PollStep(r))
      [] run.pc = "extract" -> RunExtracted(run, ExtractFields(run.result))
      [] OTHER              -> run

\* A step of analyze_pay_slip_from_url on what the service sent.
UrlStep(run, sub, r) ==
    CASE run.pc = "start"   -> RunCheckEnv(run)
      [] run.pc = "submit"  -> RunSubmitted(run, UrlSubmitStep(sub.net, sub.code, sub.opLoc))
      [] run.pc = "poll"    -> RunPolled(run, r, PollStep(r))
      [] run.pc = "extract" -> RunExtracted(run, UrlExtractFields(run.result))
      [] OTHER              -> run

PairOf(b, u) == [bytes |-> b, url |-> u]

Polls(run) == Cardinality({i \in 1..Len(run.log) : run.log[i] = "GET"})

InitPair ==
    /\ ENDPOINT \in {RStripSlash(e) : e \in EnvEndpointValues}
    /\ KEY \in EnvValues
    /\ MODEL_ID \in EnvValues
    /\ caller = "pair"
    /\ pc = "pair"
    /\ log = <<>> /\ submitResp = NoSubmitResponse /\ lastWait = -1
    /\ codes = <<>> /\ lastResp = NoResponse /\ poller = "idle"
    /\ exc = "none" /\ excBody = NoBody /\ result = NoResult
    /\ fields = NoFields /\ consistency = NoConsistency /\ warned = "none"
    /\ upserts = <<>> /\ table = {}
    /\ checkArgs = AsValues(NoFields)
    /\ checkOut = NoConsistency
    /\ normArg = NoField
    /\ normOut = NotCalled
    /\ pending = [p \in Procs |-> NoEntity] /\ lastApplied = {} /\ calls = 0
    /\ NoNameParsed
    /\ pair = PairOf(StartRun, StartRun)

pairFrame ==
    <<ENDPOINT, KEY, MODEL_ID, caller, pc, log, lastWait, codes, poller, exc,
      excBody, result, fields, consistency, warned, upserts, table, checkArgs,
      checkOut, normArg, normOut, storeVars, nameVars>>

\* Both functions check the configuration.
PairCheckEnv ==
    /\ caller = "pair"
    /\ pair.bytes.pc = "start" \/ pair.url.pc = "start"
    /\ pair' = PairOf(BytesStep(pair.bytes, submitResp, lastResp),
                      UrlStep(pair.url, submitResp, lastResp))
    /\ UNCHANGED <<pairFrame, submitResp, lastResp>>

\* The service answers the submit; both functions read the answer.
PairSubmit ==
    /\ caller = "pair"
    /\ pair.bytes.pc = "submit" \/ pair.url.pc = "submit"
    /\ \E net \in BOOLEAN, code \in HttpCodes, opLoc \in BOOLEAN :
          /\ submitResp' = SubmitResponse(net, code, opLoc)
          /\ pair' = PairOf(BytesStep(pair.bytes, SubmitResponse(net, code, opLoc), lastResp),
                            UrlStep(pair.url, SubmitResponse(net, code, opLoc), lastResp))
    /\ UNCHANGED <<pairFrame, lastResp>>

\* The service answers a poll; both pollers read the answer.
PairPoll ==
    /\ caller = "pair"
    /\ pair.bytes.pc = "poll" \/ pair.url.pc = "poll"
    /\ Polls(pair.bytes) < MaxPolls /\ Polls(pair.url) < MaxPolls
    /\ \E r \in PollResponses :
          /\ lastResp' = r
          /\ pair' = PairOf(BytesStep(pair.bytes, submitResp, r),
                            UrlStep(pair.url, submitResp, r))
    /\ UNCHANGED <<pairFrame, submitResp>>

\* Both functions build their mapping.
PairExtract ==
    /\ caller = "pair"
    /\ pair.bytes.pc = "extract" \/ pair.url.pc = "extract"
    /\ pair.bytes.pc # "poll" /\ pair.url.pc # "poll"
    /\ pair' = PairOf(BytesStep(pair.bytes, submitResp, lastResp),
                      UrlStep(pair.url, submitResp, lastResp))
    /\ UNCHANGED <<pairFrame, submitResp, lastResp>>

NextPair == PairCheckEnv \/ PairSubmit \/ PairPoll \/ PairExtract

SpecPair == InitPair /\ [][NextPair]_vars

(***************************************************************************)
(* Properties of one analyze call (Spec).                                  *)
(***************************************************************************)
Count(op) == Cardinality({i \in 1..Len(log) : log[i] = op})

\* The last poll response was read as a JSON object through a 2xx answer.
LastRead == codes # <<>> /\ lastResp.net /\ Is2xx(lastResp.code) /\ lastResp.body = "object"

All2xx == \A i \in 1..Len(codes) : Is2xx(codes[i])

TerminalStatuses == {"succeeded", "completed", "failed", "canceled"}

\* C1: when the operation reports k non-terminal statuses and then succeeded
\* or completed, all through 2xx responses, the poller makes exactly k + 1 GET
\* requests, sleeps exactly k times and returns the analyzeResult of the last
\* response.  As long as only non-terminal statuses were reported the poller
\* is therefore still running, having slept once per poll.
C1_PollsUntilSuccess ==
    (LastRead /\ All2xx) =>
        /\ lastResp.status \notin TerminalStatuses =>
              /\ poller = "running"
              /\ Count("GET") = Len(codes)
              /\ Count("SLEEP") = Len(codes)
        /\ (lastResp.status \in {"succeeded", "completed"} /\ lastResp.hasResult) =>
              /\ poller = "returned"
              /\ result = lastResp.result
              /\ Count("GET") = Len(codes)
              /\ Count("SLEEP") = Len(codes) - 1

\* C2: a poll response reporting failed or canceled makes the poller raise
\* RuntimeError with the response body right after that poll: no sleep follows
\* it, no result is returned, and a failure reported by the first poll is
\* raised after exactly one GET.
C2_FailureRaisesAtOnce ==
    (codes # <<>> /\ lastResp.net /\ ~RaisesForStatus(lastResp.code)
        /\ lastResp.body = "object" /\ lastResp.status \in {"failed", "canceled"}) =>
        /\ poller = "raised" /\ pc = "raised" /\ exc = "RuntimeError"
        /\ excBody = BodyOf(lastResp)
        /\ log[Len(log)] = "GET"
        /\ Count("GET") = Len(codes)
        /\ Count("SLEEP") = Len(codes) - 1
        /\ result = NoResult /\ fields = NoFields
        /\ ~ENABLED Poll

C2_Witness ==
    /\ Len(codes) = 1 /\ lastResp.status = "failed" /\ lastResp.body = "object"
    /\ lastResp.retry = Header(TRUE, <<"5">>)
    /\ exc = "RuntimeError" /\ Count("GET") = 1 /\ Count("SLEEP") = 0

\* C3: with an empty endpoint, key or model identifier both analyze functions
\* raise DIConfigError and make no network request; whenever a request was
\* made, the three were non-empty.
C3_ConfigCheckedFirst ==
    /\ (ENDPOINT = <<>> \/ KEY = <<>> \/ MODEL_ID = <<>>) =>
          /\ log = <<>>
          /\ pc \in {"start", "raised"}
          /\ pc = "raised" => exc = "DIConfigError"
    /\ pc = "raised" /\ exc = "DIConfigError" => log = <<>>

C3_Witness ==
    /\ caller = "url" /\ pc = "raised" /\ exc = "DIConfigError"
    /\ ENDPOINT # <<>> /\ KEY # <<>> /\ MODEL_ID = <<>> /\ log = <<>>

\* C4: a fatal response is never retried: after a non-2xx submit response or a
\* submit response without Operation-Location no GET is made, after a non-2xx
\* poll response no further GET is made, and the call ends with an error and
\* no fields.
C4_FatalNeverRetried ==
    /\ (submitResp # NoSubmitResponse /\ submitResp.net
          /\ (~Is2xx(submitResp.code) \/ ~submitResp.opLoc)) =>
          /\ Count("GET") = 0 /\ pc = "raised" /\ fields = NoFields
    /\ \A i \in 1..Len(codes) :
          ~Is2xx(codes[i]) =>
              /\ i = Len(codes) /\ Count("GET") = i
              /\ pc = "raised" /\ fields = NoFields

\* The wait C5 states for a Retry-After header: its value when it is a
\* non-negative integer, the default of 2 otherwise.
ClaimedWait(h) ==
    IF h.present /\ h.s # <<>> /\ AllIn(h.s, AsciiDigits)
    THEN DigitsValue(h.s)
    ELSE 2

\* One SLEEP after every GET but the last, and none elsewhere.
OneWaitBetweenPolls ==
    \A i \in 1..Len(log) :
        /\ (log[i] = "GET" /\ i < Len(log)) => log[i + 1] = "SLEEP"
        /\ log[i] = "SLEEP" => (i > 1 /\ log[i - 1] = "GET")
        /\ (log[i] = "SLEEP" /\ i < Len(log)) => log[i + 1] = "GET"

\* C5: after a poll that reports a non-terminal status the poller waits the
\* Retry-After value when it is a valid non-negative integer and 2 otherwise,
\* and exactly one wait lies between two consecutive polls.
C5_WaitHonoursRetryAfter ==
    /\ (codes # <<>> /\ lastResp.net /\ ~RaisesForStatus(lastResp.code)
          /\ lastResp.body = "object" /\ lastResp.status \notin TerminalStatuses) =>
          /\ poller = "running"
          /\ log[Len(log)] = "SLEEP"
          /\ lastWait = ClaimedWait(lastResp.retry)
    /\ OneWaitBetweenPolls

\* C6: in main, a failed extraction leaves no upsert and the error with the
\* caller; a successful one is followed by the check and then by exactly one
\* upsert of the four extracted values, whatever the check returned.
ExtractionFailed ==
    pc = "raised" /\ exc # "HttpResponseError"

C6_PersistAllOrNothing ==
    caller = "main" =>
        /\ Len(upserts) <= 1
        /\ ExtractionFailed => (upserts = <<>> /\ table = {})
        /\ pc = "done" => Len(upserts) = 1
        /\ pc = "done" => table = {Entity("parsed", fields)}
        /\ pc \in {"check", "upsert"} => upserts = <<>>
        /\ upserts # <<>> =>
              /\ upserts[1] = Entity("parsed", fields)
              /\ poller = "returned"
              /\ fields = ExtractFields(result).fields
              /\ consistency = check_transfer_consistency(AsValues(fields))
        /\ (pc = "done" /\ poller = "returned") =>
              warned \in {"none", "mismatch", "invalid number format"}
        /\ (poller = "returned" /\ ExtractFields(result).exc = "none"
              /\ pc \in {"done", "raised"}) => Len(upserts) = 1

C6_Witness ==
    /\ caller = "main" /\ pc = "done" /\ warned = "invalid number format"
    /\ "error" \in DOMAIN consistency.info
    /\ Len(upserts) = 1 /\ upserts[1].totalGross = TenPowPrec

(***************************************************************************)
(* Properties of check_transfer_consistency (SpecCheck).                   *)
(***************************************************************************)
CheckReturned == caller = "check" /\ pc = "returned"

ArgOf(i) == checkArgs[FieldNames[i]]

IntegerOf(v) == Big(v.hi, v.lo)

\* total_gross - total_deduction + other_payment in exact integer arithmetic.
ExactExpected ==
    BigAdd(BigSub(IntegerOf(ArgOf(1)), IntegerOf(ArgOf(2))), IntegerOf(ArgOf(3)))

ExactInfo(e, t) == [expected |-> e, transfer |-> t, diff |-> BigSub(e, t)]

\* C7: for all integer values of the four fields the check returns
\* expected = total_gross - total_deduction + other_payment, transfer =
\* transfer_amount and diff = expected - transfer, and ok is true exactly when
\* expected equals transfer, that is when diff is 0.
C7_ExactReconciliation ==
    (CheckReturned /\ \A i \in 1..4 : ArgOf(i).t = "int") =>
        /\ checkOut.info = ExactInfo(ExactExpected, IntegerOf(ArgOf(4)))
        /\ checkOut.ok <=> (ExactExpected = IntegerOf(ArgOf(4)))
        /\ checkOut.ok <=> BigIsZero(BigSub(ExactExpected, IntegerOf(ArgOf(4))))

\* A value that is a number or the text of one; None and a missing key count
\* as 0.
IsNumber(v) ==
    \/ v.t \in {"int", "float", "absent", "null"}
    \/ v.t = "str" /\ ParseLiteral(v.s, UnicodeDigits).ok

\* A text that is not the text of a number.
IsUnconvertible(v) == v.t = "str" /\ ~ParseLiteral(v.s, UnicodeDigits).ok

FailureShape(out) ==
    /\ DOMAIN out.info = {"error", "detail"}
    /\ out.info.error = "invalid_number_format"

SuccessShape(out) == DOMAIN out.info = {"expected", "transfer", "diff"}

\* C8: the check returns for every mapping, with exactly one of two shapes:
\* ok = false and {error: "invalid_number_format", detail} when one of the four
\* values cannot be converted to a number, {expected, transfer, diff} when all
\* four are numbers.
C8_ShapeFollowsConvertibility ==
    CheckReturned =>
        /\ FailureShape(checkOut) # SuccessShape(checkOut)
        /\ (\E i \in 1..4 : IsUnconvertible(ArgOf(i))) =>
               (FailureShape(checkOut) /\ ~checkOut.ok)
        /\ (\A i \in 1..4 : IsNumber(ArgOf(i))) => SuccessShape(checkOut)

(***************************************************************************)
(* Properties of _num_from_field (SpecNorm).                               *)
(***************************************************************************)
NormEnded == caller = "norm" /\ pc \in {"returned", "raised"}

GroupingSeparators == {",", "FW,"}

MinusSigns == {"-", "FW-"}

\* The text without its surrounding whitespace and grouping separators.
Ungrouped(s) == SelectSeq(Strip(s), LAMBDA c : c \notin GroupingSeparators)

IsDigits(s) == s # <<>> /\ AllIn(s, UnicodeDigits)

\* Digits of either width behind an optional minus sign.
IsSignedDigits(b) ==
    \/ IsDigits(b)
    \/ b # <<>> /\ Head(b) \in MinusSigns /\ IsDigits(Tail(b))

\* The integer such a text denotes.
Denoted(b) ==
    IF Head(b) \in MinusSigns THEN 0 - DigitsValue(Tail(b)) ELSE DigitsValue(b)

\* The only populated representation of the field is its text content.
TextOnly(f) == f.present /\ f.vn.t = "absent" /\ ~f.vc.isDict /\ f.content.isStr

\* C9: for a field that carries only text content made of digits of either
\* width, an optional minus sign, grouping separators and surrounding
\* whitespace, the normalizer returns the integer the digits denote; the
\* full-width text U+FF11 U+FF0C U+FF12 U+FF13 U+FF14 gives 1234.
C9_TextNormalized ==
    (NormEnded /\ TextOnly(normArg) /\ IsSignedDigits(Ungrouped(normArg.content.s))) =>
        normOut = [exc |-> "none", val |-> Small(Denoted(Ungrouped(normArg.content.s)))]

\* A finite JSON number.
IsFinite(v) == v.t \in {"int", "float"}

\* No number at all: missing, null or a text.
NoNumber(v) == v.t \in {"absent", "null", "str"}

\* A finite number truncated toward zero.
Truncated(v) ==
    IF v.t = "int" THEN IntegerOf(v)
    ELSE IF v.lo >= 0 THEN Small(v.lo \div 10)
    ELSE Small(0 - ((0 - v.lo) \div 10))

Unpopulated(v) == v.t \in {"absent", "null"}

\* No valueNumber, no valueCurrency amount and no text content.
NothingPopulated(f) ==
    /\ Unpopulated(f.vn)
    /\ ~f.vc.isDict \/ Unpopulated(f.vc.amount)
    /\ ~f.content.isStr

\* C11: the normalizer returns 0 and does not raise for a null or missing
\* field, for a field with no populated representation, and for text content
\* that does not read as a number once sanitized ("abc", the empty string).
C11_ZeroFallback ==
    NormEnded =>
        /\ ~normArg.present => normOut = [exc |-> "none", val |-> Small(0)]
        /\ (normArg.present /\ NothingPopulated(normArg)) =>
              normOut = [exc |-> "none", val |-> Small(0)]
        /\ (TextOnly(normArg)
              /\ ~ParseLiteral(Sanitize(normArg.content.s), UnicodeDigits).ok) =>
              normOut = [exc |-> "none", val |-> Small(0)]

C11_Witness ==
    /\ caller = "norm" /\ pc = "returned"
    /\ normArg = ContentField(<<"a">>)
    /\ normOut = [exc |-> "none", val |-> Small(0)]

(***************************************************************************)
(* Properties of the extraction and of main (Spec).                        *)
(***************************************************************************)
\* The poller returned a result object and the extractor has run on it.
Extracted == poller = "returned" /\ result.isObj /\ pc # "extract"

\* The extractor ended with an exception (main's only later exception is the
\* table service's).
ExtractorRaised == pc = "raised" /\ exc # "HttpResponseError"

\* The result names no field object for the key.
SourceAbsent(k) ==
    \/ result.docs # "list"
    \/ ~result.hasFields
    \/ ~result.fields[k].present

\* C12: whenever the poller returns a result, the extractor returns a mapping
\* with exactly the four keys, each an integer, a key whose source field is
\* absent being 0; with an empty or missing document list, or a first document
\* without fields, all four are 0 and nothing is raised.
C12_FourIntegerKeys ==
    Extracted =>
        /\ ~ExtractorRaised
        /\ DOMAIN fields =
              {"total_gross", "total_deduction", "other_payment", "transfer_amount"}
        /\ \A k \in DOMAIN fields : SourceAbsent(k) => fields[k] = Small(0)

(***************************************************************************)
(* Properties of the table store (SpecStore).                              *)
(***************************************************************************)
OnePerKey ==
    \A r1 \in table, r2 \in table :
        (r1.PartitionKey = r2.PartitionKey /\ r1.RowKey = r2.RowKey) => r1 = r2

\* The row shows the status and the amounts the call was given.
SameRecord(r, a) ==
    /\ r.status = a.status
    /\ r.totalGross = a.amounts.total_gross
    /\ r.totalDeduction = a.amounts.total_deduction
    /\ r.otherPayment = a.amounts.other_payment
    /\ r.transferAmount = a.amounts.transfer_amount

\* Every row shows the status and the four amounts of the upsert made last
\* for its key.
LastUpsertStands ==
    /\ \A a \in lastApplied :
          \E r \in table :
              /\ r.PartitionKey = a.entity.PartitionKey
              /\ r.RowKey = a.entity.RowKey
              /\ SameRecord(r, a)
    /\ \A r \in table :
          \E a \in lastApplied :
              r.PartitionKey = a.entity.PartitionKey /\ r.RowKey = a.entity.RowKey

\* A row changes only when an upsert for its own key is delivered.
OtherKeysKept ==
    \A r \in table :
        \/ r \in table'
        \/ \E p \in Procs :
              /\ pending[p] # NoEntity /\ pending'[p] = NoEntity
              /\ pending[p].entity.PartitionKey = r.PartitionKey
              /\ pending[p].entity.RowKey = r.RowKey

\* C13: after any interleaving of ingestions the store holds at most one
\* record per key (user_id, "{year:04d}-{month:02d}:{pay_type}"), that record
\* carries the status and the four amounts of the last upsert for its key,
\* never a mix of two, and an upsert leaves the records of other keys as they
\* were.
C13_LastWriteWinsPerKey ==
    [](caller = "store" => (OnePerKey /\ LastUpsertStands)) /\ [][OtherKeysKept]_vars

\* Three calls delivered: one key written by the stub and overwritten by the
\* ingest function's later call or kept, beside the record of another key.
C13_Witness ==
    /\ caller = "store" /\ calls = 3 /\ pending = [p \in Procs |-> NoEntity]
    /\ Cardinality(table) = 2
    /\ \E r \in table :
          /\ r.PartitionKey = <<"0", "1", "2", "1">>
          /\ r.RowKey = <<"2", "0", "2", "5", "-", "0", "1", ":", "salary">>
          /\ r.status = "parsed" /\ r.ingestedAtUtc = 2 /\ r.totalGross = Small(300000)
    /\ \E r \in table :
          /\ r.RowKey = <<"2", "0", "2", "5", "-", "1", "2", ":", "salary">>
          /\ r.status = "stub" /\ r.ingestedAtUtc = 0

(***************************************************************************)
(* Properties of parse_payroll_filename (SpecName).                        *)
(***************************************************************************)
NameEnded == caller = "name" /\ pc \in {"returned", "raised"}

\* The base name without a final newline.
BaseName == BeforeFinalNewline(Basename(blobName))

\* C14: parse_payroll_filename raises ValueError for a name that does not
\* match <8 digits>_<title>_<digits>.pdf; for a name that matches it returns
\* the user id with its leading zeros, the year, the month and the pay type,
\* "bonus" exactly when the title is the bonus title and "salary" otherwise.
C14_InvalidNameRaises ==
    NameEnded =>
        /\ ~PatternMatches(Basename(blobName)) =>
              (pc = "raised" /\ exc = "ValueError" /\ ident = NoIdent)
        /\ PatternMatches(Basename(blobName)) =>
              /\ pc = "returned"
              /\ ident.user_id = SubSeq(BaseName, 16, Len(BaseName) - 4)
              /\ ident.year = DigitsValue(SubSeq(BaseName, 1, 4))
              /\ ident.month = DigitsValue(SubSeq(BaseName, 5, 6))
              /\ ident.pay_type = "bonus" <=> SubSeq(BaseName, 10, 14) = BonusTitle
              /\ ident.pay_type = "salary" <=> SubSeq(BaseName, 10, 14) # BonusTitle

(***************************************************************************)
(* Properties of the poll sequence (Spec).                                 *)
(***************************************************************************)
\* A response that is a transport or protocol error: no answer, a non-2xx
\* answer, a body that is not a JSON object, a success without analyzeResult.
ErrorResponse(r) ==
    \/ ~r.net
    \/ ~Is2xx(r.code)
    \/ r.body # "object"
    \/ r.status \in {"succeeded", "completed"} /\ ~r.hasResult

\* C15: once the submit has succeeded the poll sequence ends in exactly one of
\* a returned result (succeeded or completed), the operation-failure error
\* (failed or canceled) or a propagated transport or protocol error; it does
\* not end on its own while only non-terminal statuses are reported, and
\* without a cap the next poll is always possible.
C15_EndsOnlyOnTerminalOrError ==
    /\ poller = "returned" => lastResp.status \in {"succeeded", "completed"}
    /\ poller = "raised" =>
          \/ ErrorResponse(lastResp)
          \/ lastResp.status \in {"failed", "canceled"} /\ exc = "RuntimeError"
    /\ (poller = "running" /\ Len(codes) < MaxPolls) => ENABLED Poll

\* C17: the mappings the extractor returns hold four integers, so in main the
\* check never returns the invalid_number_format shape and the "invalid number
\* format" warning is never logged.
C17_NumericPathOnly ==
    (caller = "main" /\ consistency # NoConsistency) =>
        /\ "error" \notin DOMAIN consistency.info
        /\ DOMAIN consistency.info = {"expected", "transfer", "diff"}
        /\ warned # "invalid number format"

(***************************************************************************)
(* Properties of the two analyze functions side by side (SpecPair).        *)
(***************************************************************************)
\* C16: given the same configuration and the same responses, the bytes and the
\* url function make the same polls and waits and end with the same outcome:
\* the same four values or the same kind of error.
C16_SamePollsAndOutcome ==
    caller = "pair" =>
        /\ pair.bytes.log = pair.url.log
        /\ pair.bytes.lastWait = pair.url.lastWait
        /\ pair.bytes.pc = pair.url.pc
        /\ pair.bytes.exc = pair.url.exc
        /\ pair.bytes.fields = pair.url.fields

C16_Witness ==
    /\ caller = "pair"
    /\ pair.url.pc = "returned" /\ pair.bytes.pc = "returned"
    /\ pair.url.log = <<"GET", "SLEEP", "GET">> /\ pair.url.lastWait = 5
    /\ pair.url.fields.total_gross = Small(300000)
    /\ pair.bytes.fields.transfer_amount = Small(250000)

(***************************************************************************)
(* Properties of the identity main stores under (Spec).                    *)
(***************************************************************************)
\* C18: every record main upserts has a month in 1..12, the range the
\* repository documents, whether the file name matched the payroll pattern or
\* the fallback was taken.
C18_MonthInRange ==
    (caller = "main" /\ upserts # <<>>) => (ident.month >= 1 /\ ident.month <= 12)
====
